---- MODULE Spec2Model ----
(***************************************************************************)
(* Model of multimodal_agent.py: the attribution aggregator                *)
(* run_agent_and_get_attribution, the global random generator it draws     *)
(* from, and the Streamlit script run with its temporary media file.       *)
(*                                                                         *)
(* A text is a sequence of tokens.  The characters the code's patterns     *)
(* single out ("*", ":", " ", "\n") and the full stop are tokens of their   *)
(* own and every other token is a whole word, so a match of a pattern on   *)
(* the tokens is a match on the characters and the other way round.        *)
(***************************************************************************)
EXTENDS Integers, Sequences, FiniteSets, TLC

VARIABLES
    response,          \* what agent.run does for the call under study
    pc,                \* position of that call: "ready", "returned", "raised"
    raised,            \* the exception kind the call ended with, or "none"
    attribution_data,  \* the dict the call returned, or None
    rng,               \* the random module's generator: its seed and draws so far
    mt,                \* what the generator gave at the states drawn from so far
    calls,             \* the calls made under a seed: text, seed, record
    tmp_files,         \* the temporary media files on disk
    runs,              \* script runs so far
    screen             \* what the last script run showed

call_vars == <<response, pc, raised, attribution_data>>
rng_vars == <<rng, mt, calls>>
app_vars == <<tmp_files, runs, screen>>
vars == <<response, pc, raised, attribution_data, rng, mt, calls, tmp_files,
          runs, screen>>

\* Python's None, where a record is expected
None == [none |-> TRUE]

------------------------------------------------------------------------------
(* Token sequences                                                         *)

\* s occurs in t starting at position i (1-based)
MatchesAt(s, t, i) ==
    /\ i >= 1
    /\ i + Len(s) - 1 <= Len(t)
    /\ \A j \in 1..Len(s) : t[i + j - 1] = s[j]

\* str.__contains__
Contains(t, s) == \E i \in 1..(Len(t) - Len(s) + 1) : MatchesAt(s, t, i)

\* str.lower(), word by word; a token with no upper-case letter is unchanged
LowerTable ==
    [t \in {"VISUAL", "FINDINGS", "RESEARCH", "FINAL", "ANSWER", "A", "It",
            "Car", "No", "Per", "Just", "Sedan", "Item", "Web", "Search", "WEB",
            "SEARCH", "External", "Sources", "EXTERNAL", "SOURCES"} |->
        CASE t = "VISUAL" -> "visual"
          [] t = "FINDINGS" -> "findings"
          [] t = "RESEARCH" -> "research"
          [] t = "FINAL" -> "final"
          [] t = "ANSWER" -> "answer"
          [] t = "A" -> "a"
          [] t = "It" -> "it"
          [] t = "Car" -> "car"
          [] t = "No" -> "no"
          [] t = "Per" -> "per"
          [] t = "Just" -> "just"
          [] t = "Sedan" -> "sedan"
          [] t = "Item" -> "item"
          [] t \in {"Web", "WEB"} -> "web"
          [] t \in {"Search", "SEARCH"} -> "search"
          [] t \in {"External", "EXTERNAL"} -> "external"
          [] t \in {"Sources", "SOURCES"} -> "sources"]

LowerTok(t) == IF t \in DOMAIN LowerTable THEN LowerTable[t] ELSE t

Lower(text) == [i \in 1..Len(text) |-> LowerTok(text[i])]

\* the characters str.strip() removes
Whitespace == {" ", "\n", "\t", "\r"}

RECURSIVE LStrip(_)
LStrip(s) ==
    IF s # <<>> /\ Head(s) \in Whitespace THEN LStrip(Tail(s)) ELSE s

RECURSIVE RStrip(_)
RStrip(s) ==
    IF s # <<>> /\ s[Len(s)] \in Whitespace
    THEN RStrip(SubSeq(s, 1, Len(s) - 1))
    ELSE s

Strip(s) == RStrip(LStrip(s))

\* str.split('\n'): the pieces between newlines, empty pieces included
RECURSIVE SplitFrom(_, _, _)
SplitFrom(s, i, cur) ==
    IF i > Len(s) THEN <<cur>>
    ELSE IF s[i] = "\n" THEN <<cur>> \o SplitFrom(s, i + 1, <<>>)
    ELSE SplitFrom(s, i + 1, Append(cur, s[i]))

\* a split that drops the empty pieces, as str.split() without argument does
SplitLines_DropsBlank(s) == SelectSeq(SplitFrom(s, 1, <<>>), LAMBDA l : l # <<>>)

SplitLines(s) == SplitFrom(s, 1, <<>>)

------------------------------------------------------------------------------
(* The section patterns of run_agent_and_get_attribution                   *)

VISUAL_FINDINGS == <<"VISUAL", " ", "FINDINGS">>
RESEARCH_FINDINGS == <<"RESEARCH", " ", "FINDINGS">>
FINAL_ANSWER == <<"FINAL", " ", "ANSWER">>

SectionNames == {VISUAL_FINDINGS, RESEARCH_FINDINGS, FINAL_ANSWER}

Bold == <<"*", "*">>

\* the literal part of r'\*\*NAME:\*\*'
HeaderPattern(name) == Bold \o name \o <<":">> \o Bold

\* the lookahead (?=\*\*|\Z) at position j
StopsAt(text, j) == j = Len(text) + 1 \/ MatchesAt(Bold, text, j)

RECURSIVE LazyEnd(_, _)
\* (.*?) with DOTALL from position j: the first position where the lookahead holds
LazyEnd(text, j) == IF StopsAt(text, j) THEN j ELSE LazyEnd(text, j + 1)

RECURSIVE FirstMatch(_, _, _)
FirstMatch(pat, text, i) ==
    IF i + Len(pat) - 1 > Len(text) THEN 0
    ELSE IF MatchesAt(pat, text, i) THEN i
    ELSE FirstMatch(pat, text, i + 1)

\* re.search(r'\*\*NAME:\*\*(.*?)(?=\*\*|\Z)', text, re.DOTALL): None, or the
\* match with its group(1)
SectionSearch(name, text) ==
    LET pat == HeaderPattern(name)
        i == FirstMatch(pat, text, 1)
    IN  IF i = 0 THEN None
        ELSE LET from == i + Len(pat)
             IN  [start |-> i,
                  group1 |-> SubSeq(text, from, LazyEnd(text, from) - 1)]

------------------------------------------------------------------------------
(* Scoring                                                                 *)

WEB_SEARCH == <<"web", " ", "search">>
EXTERNAL_SOURCES == <<"external", " ", "sources">>

\* the search without .lower()
search_content_found_CaseSensitive(text) ==
    Contains(text, WEB_SEARCH) \/ Contains(text, EXTERNAL_SOURCES)

search_content_found(text) ==
    Contains(Lower(text), WEB_SEARCH) \/ Contains(Lower(text), EXTERNAL_SOURCES)

SearchLow == 50
SearchHigh == 95
VisualLow == 5
VisualHigh == 50

\* random.randint(a, b) is a + randbelow(b - a + 1); k is what randbelow gives
Randint(a, b, k) == a + k

RandBelow(n) == 0..(n - 1)

\* the width randint asks randbelow for
DrawWidth(found) ==
    IF found
    THEN SearchHigh - SearchLow + 1
    ELSE VisualHigh - VisualLow + 1

SearchScore(found, k) ==
    IF found
    THEN Randint(SearchLow, SearchHigh, k)
    ELSE Randint(VisualLow, VisualHigh, k)

\* a second draw in place of the complement
VisualScore_OwnDraw(search_score) == IF search_score > 50 THEN 50 ELSE 95

VisualScore(search_score) == 100 - search_score

------------------------------------------------------------------------------
(* The record                                                              *)

NoVisualFindings ==
    <<"No", " ", "specific", " ", "visual", " ", "findings", " ", "detailed",
      ".">>

search_queries == <<"(Query 1 - Simulated)", "(Query 2 - Simulated)">>
search_snippets ==
    <<"(Snippet 1 from example.com)", "(Snippet 2 from example.org)">>

VisualFindings(text) ==
    LET visual_match == SectionSearch(VISUAL_FINDINGS, text)
    IN  IF visual_match # None
        THEN Strip(visual_match.group1)
        ELSE NoVisualFindings

\* no fallback to the whole text
FinalAnswer_NoFallback(text) ==
    LET answer_match == SectionSearch(FINAL_ANSWER, text)
    IN  IF answer_match # None THEN Strip(answer_match.group1) ELSE <<>>

FinalAnswer(text) ==
    LET answer_match == SectionSearch(FINAL_ANSWER, text)
    IN  IF answer_match # None THEN Strip(answer_match.group1) ELSE text

\* what the function takes from the text before and after the draw
Parse(text) ==
    [search_content_found |-> search_content_found(text),
     visual_findings |-> VisualFindings(text),
     final_answer |-> FinalAnswer(text)]

AttributionData(parsed, k) ==
    LET search_score == SearchScore(parsed.search_content_found, k)
    IN  [visual_score |-> VisualScore(search_score),
         search_score |-> search_score,
         visual_findings |-> SplitLines(parsed.visual_findings),
         search_queries |-> search_queries,
         search_snippets |-> search_snippets,
         final_answer |-> parsed.final_answer]

------------------------------------------------------------------------------
(* The responses the model under the agent may give                        *)

\* how the prompt names a section: **NAME**
PromptHeader(name) == Bold \o name \o Bold

MaxVisualLines == 3

\* the i-th line of a visual section: blank, or a finding that names i
ItemWord == <<"one", "two", "three", "four", "five", "six">>
LineAt(i, blank) == IF blank THEN <<>> ELSE <<"Item", " ", ItemWord[i]>>

RECURSIVE LinesBody(_, _)
LinesBody(blanks, i) ==
    IF i > Len(blanks) THEN <<>>
    ELSE LineAt(i, blanks[i]) \o <<"\n">> \o LinesBody(blanks, i + 1)

BoldLine == <<"A", " ">> \o Bold \o <<"red">> \o Bold \o <<" ", "car", ".">>

Absent == <<"(absent)">>

VisualBodies ==
    {<<>>, <<"\n">> \o BoldLine \o <<"\n">>}
    \cup UNION {{<<"\n">> \o LinesBody(bs, 1) : bs \in [1..n -> BOOLEAN]} :
                    n \in 0..MaxVisualLines}

\* both words of a marker, but not the phrase
PlainResearch ==
    <<"\n", "No", " ", "web", " ", "or", " ", "search", " ", "context", ".",
      "\n">>
WebResearch ==
    <<"\n", "Car", " ", "model", " ", "confirmed", " ", "via", " ", "web", " ",
      "search", ".", "\n">>
ExternalResearch == <<"\n", "Per", " ", "External", " ", "Sources", ".", "\n">>

ResearchBodies == {PlainResearch, WebResearch, ExternalResearch}

SedanAnswer == <<"\n", "It", " ", "is", " ", "a", " ", "2020", " ", "sedan", ".">>

FinalBodies == {<<>>, <<"\n", " ">>, Bold \o <<"Sedan">> \o Bold, SedanAnswer}

PlainText == <<"Just", " ", "a", " ", "plain", " ", "description", ".", "\n">>

ShoutedText == <<"WEB", " ", "SEARCH", " ", "used", ".", "\n">>

Preambles == {<<>>, PlainText, ShoutedText}

HeaderStyles == {"pattern", "prompt"}

Header(style, name) ==
    IF style = "pattern" THEN HeaderPattern(name) ELSE PromptHeader(name)

Section(style, name, body) ==
    IF body = Absent THEN <<>> ELSE Header(style, name) \o body

\* a response with the sections it has in the order the prompt asks for
Compose(style, pre, v, r, f) ==
    pre \o Section(style, VISUAL_FINDINGS, v)
        \o Section(style, RESEARCH_FINDINGS, r)
        \o Section(style, FINAL_ANSWER, f)

Texts ==
    {Compose(style, pre, v, r, f) :
        style \in HeaderStyles, pre \in Preambles,
        v \in VisualBodies \cup {Absent},
        r \in ResearchBodies \cup {Absent},
        f \in FinalBodies \cup {Absent}}

\* agent.run raises, returns no RunOutput, returns one without content, or
\* returns one whose content is a text
Responses ==
    {[kind |-> k, text |-> <<>>] : k \in {"raises", "no_result", "no_content"}}
    \cup {[kind |-> "content", text |-> t] : t \in Texts}

------------------------------------------------------------------------------
(* One call of run_agent_and_get_attribution                               *)

\* the generator as the import of random leaves it: seeded from the system
UnseededRng == [seed |-> 0, pos |-> 0]

RestInit ==
    /\ rng = UnseededRng
    /\ mt = {}
    /\ calls = <<>>
    /\ tmp_files = {}
    /\ runs = 0
    /\ screen = "none"

Init ==
    /\ response \in Responses
    /\ pc = "ready"
    /\ raised = "none"
    /\ attribution_data = None
    /\ RestInit

\* agent.run(prompt, **media_args) raises: the call ends with that exception
AgentRunRaises ==
    /\ pc = "ready"
    /\ response.kind = "raises"
    /\ pc' = "raised"
    /\ raised' = "ModelError"
    /\ UNCHANGED <<response, attribution_data, rng_vars, app_vars>>

\* result is None: result.content raises AttributeError
NoResult ==
    /\ pc = "ready"
    /\ response.kind = "no_result"
    /\ pc' = "raised"
    /\ raised' = "AttributeError"
    /\ UNCHANGED <<response, attribution_data, rng_vars, app_vars>>

\* result.content is None: re.search(pattern, None) raises TypeError
NoContent ==
    /\ pc = "ready"
    /\ response.kind = "no_content"
    /\ pc' = "raised"
    /\ raised' = "TypeError"
    /\ UNCHANGED <<response, attribution_data, rng_vars, app_vars>>

\* result.content is a text: parse, draw, build the dict
Attribute ==
    /\ pc = "ready"
    /\ response.kind = "content"
    /\ \E parsed \in {Parse(response.text)} :
          \E k \in RandBelow(DrawWidth(parsed.search_content_found)) :
             attribution_data' = AttributionData(parsed, k)
    /\ pc' = "returned"
    /\ UNCHANGED <<response, raised, rng_vars, app_vars>>

run_agent_and_get_attribution ==
    \/ AgentRunRaises
    \/ NoResult
    \/ NoContent
    \/ Attribute

Next == run_agent_and_get_attribution

Spec == Init /\ [][Next]_vars

------------------------------------------------------------------------------
(* Calls under the random module's one generator                           *)

MaxSeed == 2
MaxCalls == 2
MaxPos == 2

Seeds == 1..MaxSeed

SeedTexts ==
    {<<>>,
     Compose("pattern", <<>>, <<"\n">> \o LinesBody(<<FALSE>>, 1), WebResearch,
             SedanAnswer)}

\* what the generator in state g gives to randbelow: the value it gave before
\* in that state if it was drawn from, and otherwise any value
GeneratorGives(g, n) ==
    IF \E e \in mt : e.seed = g.seed /\ e.pos = g.pos
    THEN {e.k : e \in {x \in mt : x.seed = g.seed /\ x.pos = g.pos}}
    ELSE RandBelow(n)

SeedInit ==
    /\ response = [kind |-> "content", text |-> <<>>]
    /\ pc = "ready"
    /\ raised = "none"
    /\ attribution_data = None
    /\ RestInit

\* random.seed(s), by whoever wants repeatable draws
SeedRng(s) ==
    /\ rng' = [seed |-> s, pos |-> 0]
    /\ UNCHANGED <<call_vars, mt, calls, app_vars>>

\* a draw from the random module by any other code of the process
OtherDraw ==
    /\ rng.pos < MaxPos
    /\ rng' = [rng EXCEPT !.pos = @ + 1]
    /\ UNCHANGED <<call_vars, mt, calls, app_vars>>

\* run_agent_and_get_attribution on text t: its randint draws from the
\* module's generator and moves it on
SeededCall(t) ==
    /\ Len(calls) < MaxCalls
    /\ rng.pos < MaxPos
    /\ \E parsed \in {Parse(t)} :
          \E k \in GeneratorGives(rng, DrawWidth(parsed.search_content_found)) :
             /\ attribution_data' = AttributionData(parsed, k)
             /\ mt' = mt \cup {[seed |-> rng.seed, pos |-> rng.pos, k |-> k]}
             /\ calls' = Append(calls, [text |-> t, seed |-> rng.seed,
                                        record |-> attribution_data'])
    /\ rng' = [rng EXCEPT !.pos = @ + 1]
    /\ response' = [kind |-> "content", text |-> t]
    /\ pc' = "returned"
    /\ UNCHANGED <<raised, app_vars>>

SeedNext ==
    \/ \E s \in Seeds : SeedRng(s)
    \/ OtherDraw
    \/ \E t \in SeedTexts : SeededCall(t)

SpecSeed == SeedInit /\ [][SeedNext]_vars

------------------------------------------------------------------------------
(* One run of the Streamlit script                                         *)

MaxRuns == 4

AppTexts ==
    {Compose("pattern", <<>>, <<"\n">> \o LinesBody(<<FALSE>>, 1), Absent,
             SedanAnswer)}

AppResponses ==
    {[kind |-> k, text |-> <<>>] : k \in {"raises", "no_content"}}
    \cup {[kind |-> "content", text |-> t] : t \in AppTexts}

AppInit ==
    /\ response = [kind |-> "content", text |-> <<>>]
    /\ pc = "ready"
    /\ raised = "none"
    /\ attribution_data = None
    /\ RestInit

\* tempfile.NamedTemporaryFile(delete=False, ...): a file of a fresh name
NewTmpFile == runs + 1

\* gemini_api_key is empty: the run only warns
RunNoKey ==
    /\ runs < MaxRuns
    /\ runs' = runs + 1
    /\ screen' = "warning: enter your Gemini API key"
    /\ attribution_data' = None
    /\ pc' = "ready"
    /\ raised' = "none"
    /\ UNCHANGED <<response, rng_vars, tmp_files>>

\* no file is uploaded: the run only asks for one
RunNoUpload ==
    /\ runs < MaxRuns
    /\ runs' = runs + 1
    /\ screen' = "info: upload to begin"
    /\ attribution_data' = None
    /\ pc' = "ready"
    /\ raised' = "none"
    /\ UNCHANGED <<response, rng_vars, tmp_files>>

\* a file is uploaded and the button is not pressed: the upload is written
\* to a temporary file and shown
RunNoButton ==
    /\ runs < MaxRuns
    /\ runs' = runs + 1
    /\ tmp_files' = tmp_files \cup {NewTmpFile}
    /\ screen' = "media"
    /\ attribution_data' = None
    /\ pc' = "ready"
    /\ raised' = "none"
    /\ UNCHANGED <<response, rng_vars>>

\* the button is pressed and user_prompt is empty: the run warns
RunEmptyQuestion ==
    /\ runs < MaxRuns
    /\ runs' = runs + 1
    /\ tmp_files' = tmp_files \cup {NewTmpFile}
    /\ screen' = "warning: enter your question"
    /\ attribution_data' = None
    /\ pc' = "ready"
    /\ raised' = "none"
    /\ UNCHANGED <<response, rng_vars>>

\* the button is pressed with a question and the call returns: the results
\* are shown and the finally clause unlinks media_path
RunAnalyzeShows ==
    /\ runs < MaxRuns
    /\ runs' = runs + 1
    /\ \E r \in {x \in AppResponses : x.kind = "content"} :
          /\ response' = r
          /\ \E parsed \in {Parse(r.text)} :
                \E k \in RandBelow(DrawWidth(parsed.search_content_found)) :
                   attribution_data' = AttributionData(parsed, k)
    /\ pc' = "returned"
    /\ raised' = "none"
    /\ screen' = "results"
    /\ tmp_files' = (tmp_files \cup {NewTmpFile}) \ {NewTmpFile}
    /\ UNCHANGED rng_vars

\* the button is pressed with a question and the call raises: except shows
\* the error and the finally clause unlinks media_path
RunAnalyzeFails ==
    /\ runs < MaxRuns
    /\ runs' = runs + 1
    /\ \E r \in {x \in AppResponses : x.kind # "content"} :
          /\ response' = r
          /\ raised' = IF r.kind = "raises" THEN "ModelError" ELSE "TypeError"
    /\ pc' = "raised"
    /\ attribution_data' = None
    /\ screen' = "error"
    /\ tmp_files' = (tmp_files \cup {NewTmpFile}) \ {NewTmpFile}
    /\ UNCHANGED rng_vars

AppNext ==
    \/ RunNoKey
    \/ RunNoUpload
    \/ RunNoButton
    \/ RunEmptyQuestion
    \/ RunAnalyzeShows
    \/ RunAnalyzeFails

SpecApp == AppInit /\ [][AppNext]_vars

------------------------------------------------------------------------------
(* What the claims speak of, stated without the code's own steps           *)

Returned == pc = "returned"

IsText == response.kind = "content"

raw == response.text

\* the header the code looks for occurs somewhere in the text
HasHeader(text, name) ==
    \E i \in 1..Len(text) : MatchesAt(HeaderPattern(name), text, i)

\* the tokens that differ from a lower-case word in letter case only
CaseVariants(w) ==
    CASE w = "web" -> {"web", "Web", "WEB"}
      [] w = "search" -> {"search", "Search", "SEARCH"}
      [] w = "external" -> {"external", "External", "EXTERNAL"}
      [] w = "sources" -> {"sources", "Sources", "SOURCES"}
      [] OTHER -> {w}

\* the phrase occurs in the text in some letter case
MentionsAnyCase(text, phrase) ==
    \E i \in 1..(Len(text) - Len(phrase) + 1) :
        \A j \in 1..Len(phrase) : text[i + j - 1] \in CaseVariants(phrase[j])

HasMarker(text) ==
    MentionsAnyCase(text, WEB_SEARCH) \/ MentionsAnyCase(text, EXTERNAL_SOURCES)

\* '\n'.join(lines)
RECURSIVE JoinLines(_)
JoinLines(lines) ==
    IF Len(lines) = 0 THEN <<>>
    ELSE IF Len(lines) = 1 THEN lines[1]
    ELSE lines[1] \o <<"\n">> \o JoinLines(Tail(lines))

RecordKeys ==
    {"visual_score", "search_score", "visual_findings", "search_queries",
     "search_snippets", "final_answer"}

------------------------------------------------------------------------------
\* C1: for every response text and every draw, the returned record's
\* visual_score and search_score are integers in [0,100] that sum to 100.
C1_ScoresComplementary ==
    Returned =>
        /\ attribution_data.visual_score \in 0..100
        /\ attribution_data.search_score \in 0..100
        /\ attribution_data.visual_score + attribution_data.search_score = 100

C1_Witness ==
    /\ Returned
    /\ HasMarker(raw)
    /\ attribution_data.search_score = SearchHigh
    /\ attribution_data.visual_score = 5

\* C2: a text that holds "web search" or "external sources" in any letter
\* case gets a search_score in [50,95], a text that holds neither gets one in
\* [5,50], whichever sections were found.
C2_ScoreRangeByMarker ==
    Returned =>
        IF HasMarker(raw)
        THEN attribution_data.search_score \in 50..95
        ELSE attribution_data.search_score \in 5..50

C2_Witness ==
    /\ Returned
    /\ MentionsAnyCase(raw, EXTERNAL_SOURCES)
    /\ ~Contains(raw, EXTERNAL_SOURCES)
    /\ ~HasHeader(raw, VISUAL_FINDINGS)
    /\ attribution_data.search_score = SearchHigh

\* C7: on every text the call raises nothing and returns a record with all
\* six fields set; without the visual header visual_findings is the single
\* fallback line, without the final-answer header final_answer is the text.
C7_TotalOnText ==
    (IsText /\ pc # "ready") =>
        /\ Returned
        /\ raised = "none"
        /\ DOMAIN attribution_data = RecordKeys
        /\ attribution_data.visual_findings # <<>>
        /\ (~HasHeader(raw, VISUAL_FINDINGS) =>
                attribution_data.visual_findings = <<NoVisualFindings>>)
        /\ (~HasHeader(raw, FINAL_ANSWER) =>
                attribution_data.final_answer = raw)

C7_Witness ==
    /\ Returned
    /\ raw # <<>>
    /\ ~HasHeader(raw, VISUAL_FINDINGS)
    /\ ~HasHeader(raw, FINAL_ANSWER)
    /\ attribution_data.final_answer = raw

\* C10: visual_findings is the trimmed visual section split at every
\* newline, in order, blank lines kept (joining the entries with newlines
\* gives the trimmed section back); without the section it is the single
\* fallback line.
C10_VisualLines ==
    Returned =>
        LET lines == attribution_data.visual_findings
            match == SectionSearch(VISUAL_FINDINGS, raw)
        IN  /\ Len(lines) >= 1
            /\ \A n \in 1..Len(lines) :
                   \A j \in 1..Len(lines[n]) : lines[n][j] # "\n"
            /\ IF HasHeader(raw, VISUAL_FINDINGS)
               THEN JoinLines(lines) = Strip(match.group1)
               ELSE lines = <<NoVisualFindings>>

C10_Witness ==
    /\ Returned
    /\ HasHeader(raw, VISUAL_FINDINGS)
    /\ Len(attribution_data.visual_findings) = 3
    /\ attribution_data.visual_findings[2] = <<>>
    /\ attribution_data.visual_findings[1] # attribution_data.visual_findings[3]

------------------------------------------------------------------------------
\* some section header of the code's form starts at position j
HeaderAt(text, j) ==
    \E name \in SectionNames : MatchesAt(HeaderPattern(name), text, j)

\* the three headers occur once each, visual before research before final
ThreeInOrder(text, header(_)) ==
    \E i \in 1..Len(text) :
        /\ MatchesAt(header(VISUAL_FINDINGS), text, i)
        /\ \E j \in (i + 1)..Len(text) :
              /\ MatchesAt(header(RESEARCH_FINDINGS), text, j)
              /\ \E k \in (j + 1)..Len(text) :
                    MatchesAt(header(FINAL_ANSWER), text, k)

\* the text from just after the section's header to the next section header,
\* or to the end of the text
SectionText(text, name) ==
    LET pat == HeaderPattern(name)
        i == CHOOSE p \in 1..Len(text) : MatchesAt(pat, text, p)
        from == i + Len(pat)
        ends == {j \in from..(Len(text) + 1) :
                    j = Len(text) + 1 \/ HeaderAt(text, j)}
        to == CHOOSE j \in ends : \A j2 \in ends : j <= j2
    IN  SubSeq(text, from, to - 1)

\* C3: final_answer is never empty, whatever the text: the whole text when
\* the final-answer header is absent, and still something when the header is
\* followed by nothing, by blanks or by a bold marker, or the text is empty.
C3_FinalAnswerNeverEmpty ==
    Returned =>
        /\ attribution_data.final_answer # <<>>
        /\ (~HasHeader(raw, FINAL_ANSWER) => attribution_data.final_answer = raw)

\* C4: with the three headers in order, each section of the record is the
\* trimmed text between its header and the next section header (or the end),
\* also when the prose holds a bold pair that is no header.
C4_SectionsExact ==
    (Returned /\ ThreeInOrder(raw, HeaderPattern)) =>
        /\ JoinLines(attribution_data.visual_findings)
               = Strip(SectionText(raw, VISUAL_FINDINGS))
        /\ attribution_data.final_answer = Strip(SectionText(raw, FINAL_ANSWER))

\* C8: without a response object, or with content that is no text, the call
\* signals InvalidInputError and gives no record, and it signals no other
\* kind of error of its own.
C8_InvalidInputSignalled ==
    /\ (pc # "ready" /\ response.kind \in {"no_result", "no_content"}) =>
           (raised = "InvalidInputError" /\ attribution_data = None)
    /\ response.kind # "raises" => raised \in {"none", "InvalidInputError"}

\* C9: a response that marks its three sections, in order, with the headers
\* as the prompt names them is cut into those sections: visual_findings and
\* final_answer come from the sections and not from the fallbacks.
C9_PromptHeadersParsed ==
    (Returned /\ ThreeInOrder(raw, PromptHeader)) =>
        /\ attribution_data.visual_findings # <<NoVisualFindings>>
        /\ attribution_data.final_answer # raw

------------------------------------------------------------------------------
\* C5: under a fixed seed the call is deterministic: two calls on the same
\* text under the same seed return the same record, whatever other calls or
\* draws came between them.
C5_SameSeedSameRecord ==
    \A a, b \in 1..Len(calls) :
        (/\ calls[a].seed \in Seeds
         /\ calls[a].seed = calls[b].seed
         /\ calls[a].text = calls[b].text)
        => calls[a].record = calls[b].record

\* C6: every temporary media file is deleted on every exit path of the run
\* that made it: after any sequence of script runs none is left.
C6_NoTempFileLeft == tmp_files = {}

====
